---- MODULE Spec2Model ----
(***************************************************************************)
(* Model of the multilingual voice assistant in src/queries.py: the        *)
(* conversation loop (run_conversation_mode), one interaction turn         *)
(* (run_single_interaction), the speech/translation helpers and the text   *)
(* predicates should_exit and compare_to_facts.                            *)
(*                                                                         *)
(* Texts that the code inspects character by character (transcripts, exit  *)
(* keywords) are sequences of one-character strings; messages that are     *)
(* only passed on (apologies, answers) are strings.                        *)
(***************************************************************************)
EXTENDS Integers, Sequences, FiniteSets, TLC

(***************************************************************************)
(* Bounds of the model.                                                    *)
(***************************************************************************)
\* The loop of run_conversation_mode is unbounded; the model starts at most
\* this many turns.
MaxTurns == 4
\* Calls of translate_text made in one session of the function-level check.
MaxCalls == 3

(***************************************************************************)
(* Program constants.                                                      *)
(***************************************************************************)
MAX_CONSECUTIVE_ERRORS == 3
MAX_RETRIES == 3
\* Seconds.
RETRY_DELAY == 2
TRANSCRIPTION_TIMEOUT == 60
\* speak_in_language: tts_retries (default argument).
tts_retries == 2

\* Optional values: None is the empty tuple, Some(v) a one-element tuple.
None == << >>
Some(v) == <<v>>

(***************************************************************************)
(* Text primitives: str.lower, str.strip, the `in` substring test.         *)
(***************************************************************************)
UpperCase ==
  <<"A", "B", "C", "D", "E", "F", "G", "H", "I", "J", "K", "L", "M",
    "N", "O", "P", "Q", "R", "S", "T", "U", "V", "W", "X", "Y", "Z">>
LowerCase ==
  <<"a", "b", "c", "d", "e", "f", "g", "h", "i", "j", "k", "l", "m",
    "n", "o", "p", "q", "r", "s", "t", "u", "v", "w", "x", "y", "z">>

\* The lower-case letter of each upper-case letter.
LowerOf ==
  [c \in {UpperCase[k] : k \in 1..Len(UpperCase)} |->
     LowerCase[CHOOSE k \in 1..Len(UpperCase) : UpperCase[k] = c]]

LowerChar(c) == IF c \in DOMAIN LowerOf THEN LowerOf[c] ELSE c

\* str.lower(): upper-case letters are mapped, everything else is kept.
Lower(s) == [i \in 1..Len(s) |-> LowerChar(s[i])]

RECURSIVE StripLeft(_)
StripLeft(s) == IF s # << >> /\ Head(s) = " " THEN StripLeft(Tail(s)) ELSE s

RECURSIVE StripRight(_)
StripRight(s) ==
  IF s # << >> /\ s[Len(s)] = " " THEN StripRight(SubSeq(s, 1, Len(s) - 1)) ELSE s

\* str.strip(): leading and trailing blanks are removed.
Strip(s) == StripRight(StripLeft(s))

\* kw occurs in s at position i.
OccursAt(kw, s, i) == \A j \in 1..Len(kw) : s[i + j - 1] = kw[j]

\* The positions at which kw occurs in s as a contiguous run of characters.
Occurrences(kw, s) == {i \in 1..(Len(s) + 1 - Len(kw)) : OccursAt(kw, s, i)}

\* Python's `kw in s` for strings: kw occurs somewhere in s.
Contains(kw, s) == \E i \in 1..(Len(s) + 1 - Len(kw)) : OccursAt(kw, s, i)

(***************************************************************************)
(* Config.EXIT_KEYWORDS and should_exit.                                   *)
(***************************************************************************)
EXIT_KEYWORDS ==
  << <<"s", "t", "o", "p">>,
     <<"e", "x", "i", "t">>,
     <<"q", "u", "i", "t">>,
     <<"g", "o", "o", "d", "b", "y", "e">>,
     <<"b", "y", "e">>,
     <<"e", "n", "d">>,
     <<"b", "a", "n", "d", " ", "k", "a", "r", "o">>,
     <<"r", "u", "k", "h", " ", "j", "a", "o">> >>

\* should_exit(text): False on empty text; otherwise True iff some exit
\* keyword is a substring of the lower-cased, stripped text.
should_exit(text) ==
  IF text = << >> THEN FALSE
  ELSE \E k \in 1..Len(EXIT_KEYWORDS) : Contains(EXIT_KEYWORDS[k], Strip(Lower(text)))

(***************************************************************************)
(* FACTS and compare_to_facts.  Characters outside ASCII are written as    *)
(* their code points ("u092a").                                            *)
(***************************************************************************)
FACTS ==
  [principal |-> "Dr. Ananya Sharma",
   school_name |-> "Greenfield International School",
   location |-> "Mumbai",
   motto |-> "Knowledge is Power",
   established |-> "1995",
   grades |-> "kindergarten through grade 12",
   timings |-> "8:00 AM to 3:00 PM",
   contact |-> "022-1234-5678",
   email |-> "info@greenfield.edu.in"]

PrincipalWords ==
  << <<"p", "r", "i", "n", "c", "i", "p", "a", "l">>,
     <<"h", "e", "a", "d">>,
     <<"h", "e", "a", "d", "m", "a", "s", "t", "e", "r">>,
     <<"d", "i", "r", "e", "c", "t", "o", "r">>,
     <<"u092a", "u094d", "u0930", "u093f", "u0902", "u0938", "u093f", "u092a", "u0932">>,
     <<"u092a", "u094d", "u0930", "u0927", "u093e", "u0928", "u093e", "u091a", "u093e", "u0930", "u094d", "u092f">> >>
SchoolWords ==
  << <<"s", "c", "h", "o", "o", "l">>,
     <<"i", "n", "s", "t", "i", "t", "u", "t", "i", "o", "n">>,
     <<"a", "c", "a", "d", "e", "m", "y">>,
     <<"u0938", "u094d", "u0915", "u0942", "u0932">> >>
NameWords ==
  << <<"n", "a", "m", "e">>,
     <<"c", "a", "l", "l", "e", "d">>,
     <<"u0928", "u093e", "u092e">> >>
LocationWords ==
  << <<"l", "o", "c", "a", "t", "i", "o", "n">>,
     <<"w", "h", "e", "r", "e">>,
     <<"p", "l", "a", "c", "e">>,
     <<"c", "i", "t", "y">>,
     <<"l", "o", "c", "a", "t", "e", "d">>,
     <<"u0915", "u0939", "u093e", "u0901">>,
     <<"u0938", "u094d", "u0925", "u093e", "u0928">> >>
MottoWords ==
  << <<"m", "o", "t", "t", "o">>,
     <<"s", "l", "o", "g", "a", "n">>,
     <<"t", "a", "g", "l", "i", "n", "e">>,
     <<"u0906", "u0926", "u0930", "u094d", "u0936">> >>
EstablishedWords ==
  << <<"e", "s", "t", "a", "b", "l", "i", "s", "h", "e", "d">>,
     <<"f", "o", "u", "n", "d", "e", "d">>,
     <<"s", "t", "a", "r", "t", "e", "d">>,
     <<"w", "h", "e", "n">>,
     <<"u0915", "u092c">>,
     <<"u0938", "u094d", "u0925", "u093e", "u092a", "u093f", "u0924">> >>
GradesWords ==
  << <<"g", "r", "a", "d", "e">>,
     <<"c", "l", "a", "s", "s">>,
     <<"l", "e", "v", "e", "l">>,
     <<"u0915", "u0915", "u094d", "u0937", "u093e">> >>
TimingsWords ==
  << <<"t", "i", "m", "i", "n", "g">>,
     <<"t", "i", "m", "e">>,
     <<"s", "c", "h", "e", "d", "u", "l", "e">>,
     <<"h", "o", "u", "r", "s">>,
     <<"u0938", "u092e", "u092f">> >>
ContactWords ==
  << <<"c", "o", "n", "t", "a", "c", "t">>,
     <<"p", "h", "o", "n", "e">>,
     <<"n", "u", "m", "b", "e", "r">>,
     <<"c", "a", "l", "l">>,
     <<"u0938", "u0902", "u092a", "u0930", "u094d", "u0915">> >>

\* any(word in text for word in words)
AnyWordIn(words, text) == \E k \in 1..Len(words) : Contains(words[k], text)

AnsPrincipal == "The principal's name is " \o FACTS.principal \o "."
AnsSchoolName == "The school's name is " \o FACTS.school_name \o "."
AnsLocation == "The school is located in " \o FACTS.location \o "."
AnsMotto == "The school motto is '" \o FACTS.motto \o "'."
AnsEstablished == "The school was established in " \o FACTS.established \o "."
AnsGrades == "We offer " \o FACTS.grades \o "."
AnsTimings == "School timings are " \o FACTS.timings \o "."
AnsContact ==
  "You can contact us at " \o FACTS.contact \o " or email " \o FACTS.email \o "."
AnsEmpty == "Sorry, I didn't catch that. Could you please repeat?"
AnsNoMatch ==
  "Sorry, I couldn't find an answer for that. You can ask about the principal, school name, location, motto, grades, timings, or contact information."

\* The list `responses`, in the order the code appends to it.
Responses(t) ==
     (IF AnyWordIn(PrincipalWords, t) THEN <<AnsPrincipal>> ELSE << >>)
  \o (IF AnyWordIn(SchoolWords, t) /\ AnyWordIn(NameWords, t)
      THEN <<AnsSchoolName>> ELSE << >>)
  \o (IF AnyWordIn(LocationWords, t) THEN <<AnsLocation>> ELSE << >>)
  \o (IF AnyWordIn(MottoWords, t) THEN <<AnsMotto>> ELSE << >>)
  \o (IF AnyWordIn(EstablishedWords, t) THEN <<AnsEstablished>> ELSE << >>)
  \o (IF AnyWordIn(GradesWords, t) THEN <<AnsGrades>> ELSE << >>)
  \o (IF AnyWordIn(TimingsWords, t) THEN <<AnsTimings>> ELSE << >>)
  \o (IF AnyWordIn(ContactWords, t) THEN <<AnsContact>> ELSE << >>)

\* " ".join(responses)
RECURSIVE JoinSpace(_)
JoinSpace(rs) ==
  IF Len(rs) = 1 THEN rs[1] ELSE rs[1] \o " " \o JoinSpace(Tail(rs))

compare_to_facts(text) ==
  IF text = << >> THEN AnsEmpty
  ELSE LET rs == Responses(Strip(Lower(text)))
       IN IF rs # << >> THEN JoinSpace(rs) ELSE AnsNoMatch

(***************************************************************************)
(* translate_text.  svc is what the external translation service does when *)
(* it is invoked: "ok" (a translation), "empty" (an empty text) or "fail"  *)
(* (it raises).                                                            *)
(***************************************************************************)
SvcOutcomes == {"ok", "empty", "fail"}

\* The text the service returns for (text, target_lang) when it succeeds.
ServiceText(text, target_lang, svc) ==
  IF svc = "ok" THEN "[" \o target_lang \o "] " \o text ELSE ""

\* Whether translate_text reaches _GOOGLE_TRANSLATOR.translate.
TranslateInvokes(target_lang, has_translator) ==
  has_translator /\ target_lang # "en"

\* The value translate_text returns: Some(text) or None.
translate_text(text, target_lang, has_translator, svc) ==
  IF ~has_translator THEN None
  ELSE IF target_lang = "en" THEN Some(text)
  ELSE IF svc = "fail" THEN None
  ELSE Some(ServiceText(text, target_lang, svc))

(***************************************************************************)
(* The messages the conversation speaks.                                   *)
(***************************************************************************)
MsgRecFail == "Failed to record audio. Please check your microphone."
MsgSttFail == "Could not transcribe audio. Please try speaking more clearly."
MsgTooMany == "Too many errors occurred. Ending conversation."
MsgTryAgain == "Would you like to try again?"
MsgGoodbye ==
  "Thank you for using " \o FACTS.school_name \o " Voice Assistant. Goodbye!"
MsgInterrupted == "Conversation interrupted. Goodbye!"
MsgErrorRetry == "An error occurred. Let's try again."

(***************************************************************************)
(* What the speech-to-text service can return for a recording.            *)
(***************************************************************************)
tStop == <<"S", "t", "o", "p">>
tMotto == <<" ", "m", "o", "t", "t", "o">>
tByePrincipal ==
  <<"b", "y", "e", " ", "p", "r", "i", "n", "c", "i", "p", "a", "l">>
RawTranscripts == {tStop, tMotto, tByePrincipal}

(***************************************************************************)
(* State.                                                                  *)
(***************************************************************************)
VARIABLES
  pc,                  \* the statement the program is about to execute
  turn,                \* run_conversation_mode: turn
  consecutive_errors,  \* run_conversation_mode: consecutive_errors
  user_text,           \* run_conversation_mode: user_text (None or Some(text))
  should_continue,     \* run_conversation_mode: should_continue
  rsi_text,            \* run_single_interaction: user_text (None or Some(text))
  rsi_ret,             \* the value run_single_interaction is returning
  pending,             \* what run_single_interaction's finally block completes:
                       \*   "ret" (a return), "exc" (an Exception), "ki"
  sp_ret,              \* speak_in_language: the call site to return to
  sp_msg,              \* speak_in_language: text_en
  sp_native,           \* speak_in_language: text_native
  sp_attempt,          \* speak_in_language: attempt
  sp_shown,            \* speak_in_language: the line it has displayed ("" if
                       \*   none yet)
  tmp_exists,          \* the file tmp_fn of the latest speak_in_language call
                       \*   exists
  playing,             \* playbacks of pygame.mixer.music in progress
  audio_exists,        \* the turn's recording (audio_file) exists
  cleanup_called,      \* run_single_interaction: "none" (not called in this
                       \*   turn), "due" (called, finally block not reached) or
                       \*   "called" (cleanup_files has been invoked)
  mixer_up,            \* pygame.mixer is initialised
  swept,               \* main's finally block has swept the recordings
  loop_ret,            \* how run_conversation_mode ended: "none", "0", "1",
                       \*   "exc" or "ki" (an exception left it)
  exit_code,           \* the process exit status, -1 while running
  esc_from,            \* the statement whose exception left run_conversation_mode
  has_googletrans,     \* _HAS_GOOGLETRANS and _GOOGLE_TRANSLATOR is not None
  has_gtts,            \* _HAS_GTTS
  target_lang,         \* Config.TARGET_LANG
  \* History of the run, read by the properties only.
  outcomes,            \* the outcome of each finished run_single_interaction
  shown,               \* messages displayed in the current turn
  said,                \* messages speak_in_language / speak_english_fallback
                       \*   finished with in the current turn
  facts_called,        \* compare_to_facts was called in the current turn
  exit_checked,        \* should_exit was called in the current turn
  apologies,           \* calls of speak_in_language with an apology
                       \*   (lines 561, 568) in the current turn
  ki_seen,             \* a KeyboardInterrupt has arrived
  exc_seen,            \* an Exception has been raised outside the helpers' own
                       \*   try blocks
  exc_after_ki,        \* ... after a KeyboardInterrupt had arrived
  \* The function-level session (SpecFn).
  fn_has,              \* translation provider available
  fn_asked,            \* translate_text calls made, per (text, target_lang)
  fn_invoked,          \* external service invocations, per (text, target_lang)
  fn_last,             \* the last translate_text call and its result
  fn_exit,             \* the latest call of a text function and its result,
                       \*   if it was a should_exit call
  fn_facts,            \* ... if it was a compare_to_facts call
  fn_speak,            \* the latest speak_in_language call of the session
                       \*   and what it did
  stt_pc,              \* transcribe_audio: the statement that executes next
  stt_attempt,         \* transcribe_audio: attempt, the loop variable (line 431)
  stt_elapsed,         \* transcribe_audio: time.time() - start_time
  stt_transcript,      \* transcribe_audio: status and text of transcript
  stt_ended,           \* transcribe_audio: how each attempt so far ended
  stt_result           \* transcribe_audio: how the call was left

loopVars ==
  <<pc, turn, consecutive_errors, user_text, should_continue, rsi_text,
    rsi_ret, pending, sp_ret,
    sp_msg, sp_native, sp_attempt, sp_shown, tmp_exists, playing,
    audio_exists, cleanup_called, mixer_up, swept, loop_ret, exit_code,
    esc_from, has_googletrans,
    has_gtts, target_lang, outcomes, shown, said, facts_called,
    exit_checked, apologies, ki_seen,
    exc_seen, exc_after_ki>>
fnVars ==
  <<fn_has, fn_asked, fn_invoked, fn_last, fn_exit, fn_facts, fn_speak>>
sttVars ==
  <<stt_pc, stt_attempt, stt_elapsed, stt_transcript, stt_ended, stt_result>>
vars == <<loopVars, fnVars, sttVars>>

config == <<has_googletrans, has_gtts, target_lang>>
speakVars == <<sp_ret, sp_msg, sp_native, sp_attempt, sp_shown>>
envVars == <<tmp_exists, playing, audio_exists, cleanup_called, mixer_up, swept>>
faultVars == <<ki_seen, exc_seen, exc_after_ki>>
callVars == <<exit_checked, apologies>>

(***************************************************************************)
(* Control structure: which try block encloses a statement.                *)
(***************************************************************************)
\* Statements of run_single_interaction inside its try ... finally.
RsiPcs ==
  {"R_record", "R_rec_fail", "R_rec_speak", "R_transcribe", "R_stt_fail",
   "R_stt_speak", "R_said", "R_exit", "R_facts", "R_speak"}
\* Statements inside the try block of the loop of run_conversation_mode
\* (R_finally is the finally block of run_single_interaction, executed as part
\* of the call at line 603).
TryPcs ==
  {"L_call", "R_finally", "L_handle", "L_term_print", "L_term_speak",
   "L_retry_speak", "L_sleep2", "L_bye_print", "L_bye_speak", "L_sleep1"}
\* Statements of run_conversation_mode outside that try block: the banner, the
\* top of the loop and the two except blocks.
OuterPcs ==
  {"rcm_enter", "L_top", "L_banner", "KI_print", "KI_speak", "EX_count",
   "EX_term_print", "EX_term_fallback", "EX_retry_print", "EX_retry_speak",
   "EX_sleep"}
\* The except blocks of main.
MainHandlerPcs == {"M_exceptKI", "M_exceptEx"}
\* Statements of speak_in_language.
SpeakPcs == {"S_display", "S_synth", "S_play"}

\* The statement of the caller that is executing: a statement of
\* speak_in_language runs on behalf of its call site.
Site == IF pc \in SpeakPcs THEN sp_ret ELSE pc

\* run_conversation_mode is executing (the conversation is Running).
Running == Site \in RsiPcs \cup TryPcs \cup OuterPcs

\* Statements that print to the console outside any try block that would
\* catch the print's own failure (an OSError or UnicodeEncodeError of print).
PrintPcs ==
  {"rcm_enter", "L_banner", "R_record", "R_transcribe", "R_rec_fail",
   "R_stt_fail", "R_said", "S_display", "L_term_print", "L_bye_print",
   "KI_print", "EX_term_print", "EX_term_fallback", "EX_retry_print",
   "M_exceptKI", "M_exceptEx"}

(***************************************************************************)
(* Exceptions.  An exception raised at a statement goes to the innermost  *)
(* enclosing handler: the finally block of run_single_interaction, the     *)
(* except blocks of the loop, the except blocks of main, or out of main.   *)
(***************************************************************************)
\* Variant of TryHandler: the except Exception clause takes every exception,
\* a KeyboardInterrupt included.
TryHandler_CatchAll(kind) == "EX_count"

\* The except clause of the loop's try that takes an exception.
TryHandler(kind) == IF kind = "ki" THEN "KI_print" ELSE "EX_count"

\* The except clause of main's try that takes an exception.
MainHandler(kind) == IF kind = "ki" THEN "M_exceptKI" ELSE "M_exceptEx"

\* speak_in_language is left (returned from, or unwound by an exception).
SpeakLeft ==
  /\ sp_ret' = "none"
  /\ sp_msg' = ""
  /\ sp_native' = ""
  /\ sp_attempt' = 0
  /\ sp_shown' = ""

\* Variant of RsiHandler: an exception raised in run_single_interaction goes
\* straight to the caller's handlers.
RsiHandler_NoFinally(kind) == IF kind = "ki" THEN "KI_print" ELSE "EX_count"

\* Lines 556 and 582: an exception raised in the try block of
\* run_single_interaction runs the finally block before it goes on.
RsiHandler(kind) == "R_finally"

\* Variant of MainLeave: an exception leaving an except block of main ends
\* the process at once.
MainLeave_NoFinally(kind) == "done"

\* Line 706: whatever leaves the try statement of main, an exception raised
\* in one of its except blocks included, runs the finally block.
MainLeave(kind) == "M_finally"

Raise(kind) ==
  /\ SpeakLeft
  /\ IF Site \in RsiPcs
     THEN /\ pc' = RsiHandler(kind)
          /\ pending' = kind
          /\ rsi_ret' = None
          /\ UNCHANGED <<loop_ret, exit_code, esc_from, cleanup_called>>
     ELSE IF Site \in TryPcs
     THEN /\ pc' = TryHandler(kind)
          /\ pending' = "none"
          /\ rsi_ret' = None
          \* raised at R_finally: inside cleanup_files, which line 583 has
          \* called
          /\ cleanup_called' =
               IF Site = "R_finally" THEN "called" ELSE cleanup_called
          /\ UNCHANGED <<loop_ret, exit_code, esc_from>>
     ELSE IF Site \in OuterPcs
     THEN /\ pc' = MainHandler(kind)
          /\ loop_ret' = kind
          /\ esc_from' = Site
          /\ UNCHANGED <<pending, rsi_ret, exit_code, cleanup_called>>
     ELSE \* an except block of main: the exception leaves main, the
          \* interpreter ends the process with status 1
          /\ pc' = MainLeave(kind)
          /\ exit_code' = 1
          /\ UNCHANGED <<pending, rsi_ret, loop_ret, esc_from, cleanup_called>>

\* A KeyboardInterrupt arrives while run_conversation_mode is executing.  A
\* playback in progress goes on in the mixer's own thread, and the file of an
\* attempt under way stays.
KeyboardInterrupt ==
  /\ Running
  /\ Raise("ki")
  /\ ki_seen' = TRUE
  /\ UNCHANGED <<turn, consecutive_errors, user_text, should_continue, rsi_text,
                 config, outcomes, shown, said, facts_called, callVars, exc_seen,
                 exc_after_ki, fnVars, sttVars, tmp_exists, playing, audio_exists,
                 mixer_up, swept>>

\* A print() raises (stdout closed, text not encodable).
DisplayError ==
  /\ pc \in PrintPcs
  /\ Raise("exc")
  /\ exc_seen' = TRUE
  /\ exc_after_ki' = (exc_after_ki \/ ki_seen)
  /\ UNCHANGED <<turn, consecutive_errors, user_text, should_continue, rsi_text,
                 config, outcomes, shown, said, facts_called, callVars, ki_seen, fnVars, sttVars,
                 tmp_exists, playing, audio_exists, mixer_up, swept>>

(***************************************************************************)
(* speak_in_language.                                                      *)
(***************************************************************************)
\* Variant of FirstStep: the audio is attempted before the text is displayed.
FirstStep_AudioFirst(msg) == "S_synth"

\* Lines 322-336 come before the synthesis of lines 339-367.
FirstStep(msg) == "S_display"

\* The call speak_in_language(msg, Config.TARGET_LANG) at call site `site`
\* with a non-empty text (line 319); tmp_fn (line 343) is a new name.
SpeakCall(site, msg) ==
  /\ msg # ""
  /\ pc' = FirstStep(msg)
  /\ sp_ret' = site
  /\ sp_msg' = msg
  /\ sp_native' = ""
  /\ sp_attempt' = 0
  /\ sp_shown' = ""
  /\ tmp_exists' = FALSE
  /\ UNCHANGED <<playing, audio_exists, cleanup_called, mixer_up, swept>>

\* text_native as lines 325-336 compute it (prefer_translation is True at
\* every call site).
TextNative(text_en, lang, has_translator, svc) ==
  IF lang # "en"
  THEN LET r == translate_text(text_en, lang, has_translator, svc)
       IN IF r # None /\ r[1] # "" THEN r[1] ELSE text_en
  ELSE text_en

\* The line printed at lines 329, 333 or 336.
TextDisplayed(text_en, lang, has_translator, svc) ==
  IF lang # "en"
  THEN LET r == translate_text(text_en, lang, has_translator, svc)
       IN IF r # None /\ r[1] # "" THEN r[1]
          ELSE text_en \o " [Translation unavailable]"
  ELSE text_en

\* Lines 322-336: the text is translated and displayed.
SpeakDisplay ==
  /\ pc = "S_display"
  /\ \E svc \in SvcOutcomes :
       /\ sp_native' = TextNative(sp_msg, target_lang, has_googletrans, svc)
       /\ sp_shown' = TextDisplayed(sp_msg, target_lang, has_googletrans, svc)
  /\ shown' = shown \cup {sp_msg}
  /\ pc' = "S_synth"
  /\ UNCHANGED <<turn, consecutive_errors, user_text, should_continue, rsi_text,
                 rsi_ret, pending, sp_ret, sp_msg, sp_attempt, loop_ret,
                 exit_code, config, outcomes, said, facts_called, callVars, faultVars,
                 fnVars, sttVars, esc_from, envVars>>

\* Variant of AnswerResult: a turn whose answer could not be played counts as
\* failed.
AnswerResult_NeedsAudio(text, played) ==
  IF played THEN Some(<<text, TRUE>>) ELSE Some(<<None, FALSE>>)

\* Line 580: return user_text, True, whether or not the answer was played.
AnswerResult(text, played) == Some(<<text, TRUE>>)

\* Variant of AfterApology: after the capture apology the turn goes on to the
\* transcription.
AfterApology_GoesOn(site) ==
  IF site = "R_rec_speak" THEN "R_transcribe" ELSE "R_finally"

\* Lines 562 and 569: return None, False follows the apology at once.
AfterApology(site) == "R_finally"

\* What one finished call did: the line displayed, the attempts that failed,
\* whether the text was played.
SpeakRecord(text, line, failed, played) ==
  [text |-> text, shown |-> line, failed |-> failed, played |-> played]

\* The statement after the call returns, per call site.
SpeakReturn ==
  /\ SpeakLeft
  /\ UNCHANGED esc_from
  /\ said' = said \cup {sp_msg}
  /\ CASE sp_ret \in {"R_rec_speak", "R_stt_speak"} ->
            \* return None, False
            /\ rsi_ret' = Some(<<None, FALSE>>)
            /\ pending' = "ret"
            /\ pc' = AfterApology(sp_ret)
            /\ UNCHANGED <<loop_ret, exit_code, fn_speak>>
       [] sp_ret = "R_speak" ->
            \* return user_text, True
            /\ rsi_ret' = AnswerResult(rsi_text, pc = "S_play")
            /\ pending' = "ret"
            /\ pc' = "R_finally"
            /\ UNCHANGED <<loop_ret, exit_code, fn_speak>>
       [] sp_ret = "L_term_speak" ->
            \* return 1
            /\ loop_ret' = "1"
            /\ exit_code' = 1
            /\ pc' = "M_finally"
            /\ UNCHANGED <<rsi_ret, pending, fn_speak>>
       [] sp_ret \in {"L_bye_speak", "KI_speak"} ->
            \* return 0
            /\ loop_ret' = "0"
            /\ exit_code' = 0
            /\ pc' = "M_finally"
            /\ UNCHANGED <<rsi_ret, pending, fn_speak>>
       [] sp_ret = "L_retry_speak" ->
            /\ pc' = "L_sleep2"
            /\ UNCHANGED <<rsi_ret, pending, loop_ret, exit_code, fn_speak>>
       [] sp_ret = "EX_retry_speak" ->
            /\ pc' = "EX_sleep"
            /\ UNCHANGED <<rsi_ret, pending, loop_ret, exit_code, fn_speak>>
       [] sp_ret = "fn" ->
            \* a call of the function-level session
            /\ pc' = "fn"
            /\ fn_speak' =
                 Some(SpeakRecord(sp_msg, sp_shown, sp_attempt, pc = "S_play"))
            /\ UNCHANGED <<rsi_ret, pending, loop_ret, exit_code>>
  /\ UNCHANGED <<turn, consecutive_errors, user_text, should_continue, rsi_text,
                 config, outcomes, shown, facts_called, callVars, faultVars, sttVars, fn_has,
                 fn_asked, fn_invoked, fn_last, fn_exit, fn_facts,
                 audio_exists, cleanup_called, mixer_up, swept>>

\* Lines 339-341: gTTS is not installed, text-only mode.
SpeakTextOnly ==
  /\ pc = "S_synth"
  /\ ~has_gtts
  /\ SpeakReturn
  /\ UNCHANGED <<tmp_exists, playing>>

\* Variant of AttemptsLeft: one attempt more than tts_retries.
AttemptsLeft_OneMore(attempt) == attempt <= tts_retries

\* Line 345: for attempt in range(tts_retries).
AttemptsLeft(attempt) == attempt < tts_retries

\* Variant of AfterLoad: loading leaves a playback in progress running.
AfterLoad_Keeps(n) == n

\* Line 350: pygame.mixer.music.load stops the music stream if it is playing.
AfterLoad(n) == 0

\* Lines 347-351: the text is synthesized and saved to tmp_fn, the file is
\* loaded and its playback started.
SpeakPlay ==
  /\ pc = "S_synth"
  /\ has_gtts
  /\ AttemptsLeft(sp_attempt)
  /\ tmp_exists' = TRUE
  /\ playing' = AfterLoad(playing) + 1
  /\ pc' = "S_play"
  /\ UNCHANGED <<turn, consecutive_errors, user_text, should_continue,
                 rsi_text, rsi_ret, pending, speakVars, loop_ret, exit_code,
                 config, outcomes, shown, said, facts_called, callVars, faultVars,
                 fnVars, sttVars, esc_from, audio_exists, cleanup_called, mixer_up,
                 swept>>

\* Lines 353-361: the playback has ended (get_busy() is false), the stream is
\* unloaded, tmp_fn removed, and the call returns.
SpeakAttemptOk ==
  /\ pc = "S_play"
  /\ playing' = 0
  /\ tmp_exists' = FALSE
  /\ SpeakReturn

\* Lines 347-351 and 363-365: gTTS, save, load or play raises; the exception
\* is logged and the loop goes on to the next attempt.  Nothing removes
\* tmp_fn if it was written.
SpeakAttemptFail ==
  /\ pc = "S_synth"
  /\ has_gtts
  /\ AttemptsLeft(sp_attempt)
  /\ sp_attempt' = sp_attempt + 1
  /\ \E saved \in BOOLEAN, loaded \in BOOLEAN :
       /\ loaded => saved
       /\ tmp_exists' = (tmp_exists \/ saved)
       /\ playing' = IF loaded THEN AfterLoad(playing) ELSE playing
  /\ UNCHANGED <<pc, turn, consecutive_errors, user_text, should_continue,
                 rsi_text, rsi_ret, pending, sp_ret, sp_msg, sp_native,
                 sp_shown, loop_ret, exit_code, config, outcomes, shown, said,
                 facts_called, callVars, faultVars, fnVars, sttVars, esc_from, audio_exists,
                 cleanup_called, mixer_up, swept>>

\* Lines 357-360 and 363-365: the playback has ended, and unload or
\* os.remove raises; tmp_fn stays and the loop goes on to the next attempt.
SpeakRemoveFail ==
  /\ pc = "S_play"
  /\ playing' = 0
  /\ sp_attempt' = sp_attempt + 1
  /\ pc' = "S_synth"
  /\ UNCHANGED <<turn, consecutive_errors, user_text, should_continue,
                 rsi_text, rsi_ret, pending, sp_ret, sp_msg, sp_native,
                 sp_shown, loop_ret, exit_code, config, outcomes, shown, said,
                 facts_called, callVars, faultVars, fnVars, sttVars, esc_from, tmp_exists,
                 audio_exists, cleanup_called, mixer_up, swept>>

\* Line 367: every attempt failed; the failure is logged.
SpeakGiveUp ==
  /\ pc = "S_synth"
  /\ has_gtts
  /\ ~AttemptsLeft(sp_attempt)
  /\ SpeakReturn
  /\ UNCHANGED <<tmp_exists, playing>>

\* A playback the program no longer waits for (its wait was interrupted) ends.
PlaybackEnds ==
  /\ playing > 0
  /\ pc # "S_play"
  /\ pc # "done"
  /\ playing' = 0
  /\ UNCHANGED <<pc, turn, consecutive_errors, user_text, should_continue,
                 rsi_text, rsi_ret, pending, speakVars, loop_ret, exit_code,
                 config, outcomes, shown, said, facts_called, callVars, faultVars,
                 fnVars, sttVars, esc_from, tmp_exists, audio_exists, cleanup_called,
                 mixer_up, swept>>

(***************************************************************************)
(* run_single_interaction.                                                 *)
(***************************************************************************)
\* Line 557: record_audio returns the file name or None.
RecordAudio ==
  /\ pc = "R_record"
  /\ \E recorded \in BOOLEAN, written \in BOOLEAN :
       \* a recording that is reported exists (lines 408-413); a failed one
       \* may have been written (empty) or not
       /\ recorded => written
       /\ audio_exists' = written
       /\ pc' = IF recorded THEN "R_transcribe" ELSE "R_rec_fail"
  /\ UNCHANGED <<turn, consecutive_errors, user_text, should_continue, rsi_text,
                 rsi_ret, pending, speakVars, loop_ret, exit_code, config,
                 outcomes, shown, said, facts_called, callVars, faultVars, fnVars, sttVars,
                 esc_from,
                 tmp_exists, playing, cleanup_called, mixer_up, swept>>

\* Lines 559-560.
RecFailPrint ==
  /\ pc = "R_rec_fail"
  /\ shown' = shown \cup {MsgRecFail}
  /\ pc' = "R_rec_speak"
  /\ UNCHANGED <<turn, consecutive_errors, user_text, should_continue, rsi_text,
                 rsi_ret, pending, speakVars, loop_ret, exit_code, config,
                 outcomes, said, facts_called, callVars, faultVars, fnVars, sttVars,
                 esc_from, envVars>>

\* Line 561.
RecFailSpeak ==
  /\ pc = "R_rec_speak"
  /\ SpeakCall("R_rec_speak", MsgRecFail)
  /\ apologies' = apologies + 1
  /\ UNCHANGED <<turn, consecutive_errors, user_text, should_continue, rsi_text,
                 rsi_ret, pending, loop_ret, exit_code, config, outcomes, shown,
                 said, facts_called, exit_checked, faultVars, fnVars, sttVars,
                 esc_from>>

\* What transcribe_audio can return: None, or the lower-cased, stripped text
\* of a non-blank transcript (line 462).
Transcriptions == {None} \cup {Some(Strip(Lower(t))) : t \in RawTranscripts}

\* Line 564.
Transcribe ==
  /\ pc = "R_transcribe"
  /\ \E r \in Transcriptions :
       /\ rsi_text' = r
       /\ pc' = IF r = None THEN "R_stt_fail" ELSE "R_said"
  /\ UNCHANGED <<turn, consecutive_errors, user_text, should_continue, rsi_ret,
                 pending, speakVars, loop_ret, exit_code, config, outcomes,
                 shown, said, facts_called, callVars, faultVars, fnVars, sttVars,
                 esc_from, envVars>>

\* Lines 566-567.
SttFailPrint ==
  /\ pc = "R_stt_fail"
  /\ shown' = shown \cup {MsgSttFail}
  /\ pc' = "R_stt_speak"
  /\ UNCHANGED <<turn, consecutive_errors, user_text, should_continue, rsi_text,
                 rsi_ret, pending, speakVars, loop_ret, exit_code, config,
                 outcomes, said, facts_called, callVars, faultVars, fnVars, sttVars,
                 esc_from, envVars>>

\* Line 568.
SttFailSpeak ==
  /\ pc = "R_stt_speak"
  /\ SpeakCall("R_stt_speak", MsgSttFail)
  /\ apologies' = apologies + 1
  /\ UNCHANGED <<turn, consecutive_errors, user_text, should_continue, rsi_text,
                 rsi_ret, pending, loop_ret, exit_code, config, outcomes, shown,
                 said, facts_called, exit_checked, faultVars, fnVars, sttVars,
                 esc_from>>

\* Line 571.
SaidPrint ==
  /\ pc = "R_said"
  /\ pc' = "R_exit"
  /\ UNCHANGED <<turn, consecutive_errors, user_text, should_continue, rsi_text,
                 rsi_ret, pending, speakVars, loop_ret, exit_code, config,
                 outcomes, shown, said, facts_called, callVars, faultVars, fnVars, sttVars,
                 esc_from, envVars>>

\* Variant of ExitCheck: the answer is built before the exit request is
\* looked at.
ExitCheck_AfterFacts ==
  /\ pc = "R_exit"
  /\ facts_called' = TRUE
  /\ exit_checked' = TRUE
  /\ UNCHANGED apologies
  /\ IF should_exit(rsi_text[1])
     THEN /\ rsi_ret' = Some(<<rsi_text, FALSE>>)
          /\ pending' = "ret"
          /\ pc' = "R_finally"
     ELSE /\ pc' = "R_facts"
          /\ UNCHANGED <<rsi_ret, pending>>
  /\ UNCHANGED <<turn, consecutive_errors, user_text, should_continue, rsi_text,
                 speakVars, loop_ret, exit_code, esc_from, config, outcomes,
                 shown, said, faultVars, fnVars, sttVars, envVars>>

\* Lines 573-575: on an exit request, return user_text, False.
ExitCheck ==
  /\ pc = "R_exit"
  /\ IF should_exit(rsi_text[1])
     THEN /\ rsi_ret' = Some(<<rsi_text, FALSE>>)
          /\ pending' = "ret"
          /\ pc' = "R_finally"
     ELSE /\ pc' = "R_facts"
          /\ UNCHANGED <<rsi_ret, pending>>
  /\ exit_checked' = TRUE
  /\ UNCHANGED <<turn, consecutive_errors, user_text, should_continue, rsi_text,
                 speakVars, loop_ret, exit_code, config, outcomes, shown, said,
                 facts_called, apologies, faultVars, fnVars, sttVars,
                 esc_from, envVars>>

\* Lines 577-578: the answer is built and handed to speak_in_language.
AnswerFacts ==
  /\ pc = "R_facts"
  /\ facts_called' = TRUE
  /\ UNCHANGED callVars
  /\ SpeakCall("R_speak", compare_to_facts(rsi_text[1]))
  /\ UNCHANGED <<turn, consecutive_errors, user_text, should_continue, rsi_text,
                 rsi_ret, pending, loop_ret, exit_code, config, outcomes, shown,
                 said, faultVars, fnVars, sttVars,
                 esc_from>>

\* The outcome of a finished call, as the loop sees it.
OutcomeOf(p, ret) ==
  IF p = "exc" THEN "Exception"
  ELSE IF ret[1][1] = None THEN "Failed"
  ELSE IF ret[1][2] THEN "Continue"
  ELSE "Exit"

\* Lines 582-583 and 603: the finally block cleans up, then the call returns
\* its value to the loop or the pending exception goes on to the loop's
\* handlers.
Cleanup ==
  /\ pc = "R_finally"
  /\ IF pending = "ret"
     THEN /\ user_text' = rsi_ret[1][1]
          /\ should_continue' = rsi_ret[1][2]
          /\ pc' = "L_handle"
     ELSE /\ pc' = TryHandler(pending)
          /\ UNCHANGED <<user_text, should_continue>>
  /\ outcomes' = IF pending = "ki" THEN outcomes
                 ELSE Append(outcomes, OutcomeOf(pending, rsi_ret))
  /\ rsi_text' = None
  /\ rsi_ret' = None
  /\ pending' = "none"
  /\ cleanup_called' = "called"
  /\ audio_exists' = FALSE
  /\ UNCHANGED <<turn, consecutive_errors, speakVars, loop_ret, exit_code,
                 config, shown, said, facts_called, callVars, faultVars, fnVars, sttVars,
                 esc_from,
                 tmp_exists, playing, mixer_up, swept>>

(***************************************************************************)
(* run_conversation_mode.                                                  *)
(***************************************************************************)
\* Variant of ThresholdReached: the comparison is strict.
ThresholdReached_Strict(n) == n > MAX_CONSECUTIVE_ERRORS

\* Lines 609 and 642.
ThresholdReached(n) == n >= MAX_CONSECUTIVE_ERRORS

\* return code
Return(code) ==
  /\ UNCHANGED esc_from
  /\ loop_ret' = (IF code = 0 THEN "0" ELSE "1")
  /\ exit_code' = code
  /\ pc' = "M_finally"

\* Lines 587-594: the banner, consecutive_errors = 0, turn = 0.
EnterConversation ==
  /\ pc = "rcm_enter"
  /\ consecutive_errors' = 0
  /\ turn' = 0
  /\ pc' = "L_top"
  /\ UNCHANGED <<user_text, should_continue, rsi_text, rsi_ret, pending,
                 speakVars, loop_ret, exit_code, config, outcomes, shown, said,
                 facts_called, callVars, faultVars, fnVars, sttVars,
                 esc_from, envVars>>

\* Variant of NextTurn: a turn after a failed one keeps its number.
NextTurn_KeptOnFailure(n) == IF consecutive_errors > 0 THEN n ELSE n + 1

\* Line 597: turn += 1.
NextTurn(n) == n + 1

\* Lines 596-597: turn += 1.  The loop's user_text and should_continue are not
\* read again before line 603 assigns them; they and the per-turn history
\* start afresh.
TurnStart ==
  /\ pc = "L_top"
  /\ turn < MaxTurns
  /\ turn' = NextTurn(turn)
  /\ user_text' = None
  /\ should_continue' = FALSE
  /\ shown' = {}
  /\ said' = {}
  /\ facts_called' = FALSE
  /\ exit_checked' = FALSE
  /\ apologies' = 0
  /\ cleanup_called' = "none"
  /\ pc' = "L_banner"
  /\ UNCHANGED <<consecutive_errors, rsi_text, rsi_ret, pending, speakVars,
                 loop_ret, exit_code, config, outcomes, faultVars, fnVars, sttVars,
                 esc_from,
                 tmp_exists, playing, audio_exists, mixer_up, swept>>

\* Lines 598-600.
TurnBanner ==
  /\ pc = "L_banner"
  /\ pc' = "L_call"
  /\ UNCHANGED <<turn, consecutive_errors, user_text, should_continue, rsi_text,
                 rsi_ret, pending, speakVars, loop_ret, exit_code, config,
                 outcomes, shown, said, facts_called, callVars, faultVars, fnVars, sttVars,
                 esc_from, envVars>>

\* Lines 602-603 and 554: run_single_interaction(turn) is entered.
CallInteraction ==
  /\ pc = "L_call"
  /\ pc' = "R_record"
  /\ cleanup_called' = "due"
  /\ UNCHANGED <<turn, consecutive_errors, user_text, should_continue, rsi_text,
                 rsi_ret, pending, speakVars, loop_ret, exit_code, config,
                 outcomes, shown, said, facts_called, callVars, faultVars, fnVars, sttVars,
                 esc_from,
                 tmp_exists, playing, audio_exists, mixer_up, swept>>

\* Lines 605-609 and 620-622: the turn's result is counted.
HandleOutcome ==
  /\ pc = "L_handle"
  /\ IF user_text = None
     THEN /\ consecutive_errors' = consecutive_errors + 1
          /\ pc' = IF ThresholdReached(consecutive_errors + 1)
                   THEN "L_term_print" ELSE "L_retry_speak"
     ELSE /\ consecutive_errors' = 0
          /\ pc' = IF ~should_continue THEN "L_bye_print" ELSE "L_sleep1"
  /\ UNCHANGED <<turn, user_text, should_continue, rsi_text, rsi_ret, pending,
                 speakVars, loop_ret, exit_code, config, outcomes, shown, said,
                 facts_called, callVars, faultVars, fnVars, sttVars,
                 esc_from, envVars>>

\* Lines 610-611.
TermPrint ==
  /\ pc = "L_term_print"
  /\ shown' = shown \cup {MsgTooMany}
  /\ pc' = "L_term_speak"
  /\ UNCHANGED <<turn, consecutive_errors, user_text, should_continue, rsi_text,
                 rsi_ret, pending, speakVars, loop_ret, exit_code, config,
                 outcomes, said, facts_called, callVars, faultVars, fnVars, sttVars,
                 esc_from, envVars>>

\* Line 612 (line 613, return 1, follows the call's return).
TermSpeak ==
  /\ pc = "L_term_speak"
  /\ SpeakCall("L_term_speak", MsgTooMany)
  /\ UNCHANGED <<turn, consecutive_errors, user_text, should_continue, rsi_text,
                 rsi_ret, pending, loop_ret, exit_code, config, outcomes, shown,
                 said, facts_called, callVars, faultVars, fnVars, sttVars,
                 esc_from>>

\* Lines 615-616.
RetrySpeak ==
  /\ pc = "L_retry_speak"
  /\ SpeakCall("L_retry_speak", MsgTryAgain)
  /\ UNCHANGED <<turn, consecutive_errors, user_text, should_continue, rsi_text,
                 rsi_ret, pending, loop_ret, exit_code, config, outcomes, shown,
                 said, facts_called, callVars, faultVars, fnVars, sttVars,
                 esc_from>>

\* Lines 617-618: time.sleep(2); continue.
Sleep2 ==
  /\ pc = "L_sleep2"
  /\ pc' = "L_top"
  /\ UNCHANGED <<turn, consecutive_errors, user_text, should_continue, rsi_text,
                 rsi_ret, pending, speakVars, loop_ret, exit_code, config,
                 outcomes, shown, said, facts_called, callVars, faultVars, fnVars, sttVars,
                 esc_from, envVars>>

\* Lines 623-624.
ByePrint ==
  /\ pc = "L_bye_print"
  /\ shown' = shown \cup {MsgGoodbye}
  /\ pc' = "L_bye_speak"
  /\ UNCHANGED <<turn, consecutive_errors, user_text, should_continue, rsi_text,
                 rsi_ret, pending, speakVars, loop_ret, exit_code, config,
                 outcomes, said, facts_called, callVars, faultVars, fnVars, sttVars,
                 esc_from, envVars>>

\* Line 625 (lines 626-627, return 0, follow the call's return).
ByeSpeak ==
  /\ pc = "L_bye_speak"
  /\ SpeakCall("L_bye_speak", MsgGoodbye)
  /\ UNCHANGED <<turn, consecutive_errors, user_text, should_continue, rsi_text,
                 rsi_ret, pending, loop_ret, exit_code, config, outcomes, shown,
                 said, facts_called, callVars, faultVars, fnVars, sttVars,
                 esc_from>>

\* Line 629: time.sleep(1), then the next iteration.
Sleep1 ==
  /\ pc = "L_sleep1"
  /\ pc' = "L_top"
  /\ UNCHANGED <<turn, consecutive_errors, user_text, should_continue, rsi_text,
                 rsi_ret, pending, speakVars, loop_ret, exit_code, config,
                 outcomes, shown, said, facts_called, callVars, faultVars, fnVars, sttVars,
                 esc_from, envVars>>

\* Lines 631-634: except KeyboardInterrupt.
KiPrint ==
  /\ pc = "KI_print"
  /\ pc' = "KI_speak"
  /\ UNCHANGED <<turn, consecutive_errors, user_text, should_continue, rsi_text,
                 rsi_ret, pending, speakVars, loop_ret, exit_code, config,
                 outcomes, shown, said, facts_called, callVars, faultVars, fnVars, sttVars,
                 esc_from, envVars>>

\* Line 635 (line 636, return 0, follows the call's return).
KiSpeak ==
  /\ pc = "KI_speak"
  /\ SpeakCall("KI_speak", MsgInterrupted)
  /\ UNCHANGED <<turn, consecutive_errors, user_text, should_continue, rsi_text,
                 rsi_ret, pending, loop_ret, exit_code, config, outcomes, shown,
                 said, facts_called, callVars, faultVars, fnVars, sttVars,
                 esc_from>>

\* Variant of CountException: an exception is not counted.
CountException_Not(n) == n

\* Line 640: consecutive_errors += 1, the counter of line 606.
CountException(n) == n + 1

\* Lines 638-642: except Exception.
ExCount ==
  /\ pc = "EX_count"
  /\ consecutive_errors' = CountException(consecutive_errors)
  /\ pc' = IF ThresholdReached(CountException(consecutive_errors))
           THEN "EX_term_print" ELSE "EX_retry_print"
  /\ UNCHANGED <<turn, user_text, should_continue, rsi_text, rsi_ret, pending,
                 speakVars, loop_ret, exit_code, config, outcomes, shown, said,
                 facts_called, callVars, faultVars, fnVars, sttVars,
                 esc_from, envVars>>

\* Lines 643-644.
ExTermPrint ==
  /\ pc = "EX_term_print"
  /\ shown' = shown \cup {MsgTooMany}
  /\ pc' = "EX_term_fallback"
  /\ UNCHANGED <<turn, consecutive_errors, user_text, should_continue, rsi_text,
                 rsi_ret, pending, speakVars, loop_ret, exit_code, config,
                 outcomes, said, facts_called, callVars, faultVars, fnVars, sttVars,
                 esc_from, envVars>>

\* Lines 645-646: speak_english_fallback(error_msg); return 1.
ExTermFallback ==
  /\ pc = "EX_term_fallback"
  /\ said' = said \cup {MsgTooMany}
  /\ Return(1)
  /\ UNCHANGED <<turn, consecutive_errors, user_text, should_continue, rsi_text,
                 rsi_ret, pending, speakVars, config, outcomes, shown,
                 facts_called, callVars, faultVars, fnVars, sttVars, envVars>>

\* Lines 648-649.
ExRetryPrint ==
  /\ pc = "EX_retry_print"
  /\ shown' = shown \cup {MsgErrorRetry}
  /\ pc' = "EX_retry_speak"
  /\ UNCHANGED <<turn, consecutive_errors, user_text, should_continue, rsi_text,
                 rsi_ret, pending, speakVars, loop_ret, exit_code, config,
                 outcomes, said, facts_called, callVars, faultVars, fnVars, sttVars,
                 esc_from, envVars>>

\* Line 650.
ExRetrySpeak ==
  /\ pc = "EX_retry_speak"
  /\ SpeakCall("EX_retry_speak", MsgErrorRetry)
  /\ UNCHANGED <<turn, consecutive_errors, user_text, should_continue, rsi_text,
                 rsi_ret, pending, loop_ret, exit_code, config, outcomes, shown,
                 said, facts_called, callVars, faultVars, fnVars, sttVars,
                 esc_from>>

\* Line 651: time.sleep(1), then the next iteration.
ExSleep ==
  /\ pc = "EX_sleep"
  /\ pc' = "L_top"
  /\ UNCHANGED <<turn, consecutive_errors, user_text, should_continue, rsi_text,
                 rsi_ret, pending, speakVars, loop_ret, exit_code, config,
                 outcomes, shown, said, facts_called, callVars, faultVars, fnVars, sttVars,
                 esc_from, envVars>>

(***************************************************************************)
(* main, from the call of run_conversation_mode on.                        *)
(***************************************************************************)
\* Lines 696-699: except KeyboardInterrupt: return 0.
MainExceptKI ==
  /\ pc = "M_exceptKI"
  /\ exit_code' = 0
  /\ pc' = "M_finally"
  /\ UNCHANGED <<turn, consecutive_errors, user_text, should_continue, rsi_text,
                 rsi_ret, pending, speakVars, loop_ret, config, outcomes, shown,
                 said, facts_called, callVars, faultVars, fnVars, sttVars,
                 esc_from, envVars>>

\* Lines 701-704: except Exception: return 1.
MainExceptEx ==
  /\ pc = "M_exceptEx"
  /\ exit_code' = 1
  /\ pc' = "M_finally"
  /\ UNCHANGED <<turn, consecutive_errors, user_text, should_continue, rsi_text,
                 rsi_ret, pending, speakVars, loop_ret, config, outcomes, shown,
                 said, facts_called, callVars, faultVars, fnVars, sttVars,
                 esc_from, envVars>>

\* Lines 706-720: the finally block, then sys.exit(exit_code).
MainFinally ==
  /\ pc = "M_finally"
  \* pygame.mixer.quit() ends any playback; the sweep removes every
  \* conversation_turn_* recording
  /\ mixer_up' = FALSE
  /\ playing' = 0
  /\ swept' = TRUE
  /\ audio_exists' = FALSE
  /\ pc' = "done"
  /\ UNCHANGED <<turn, consecutive_errors, user_text, should_continue, rsi_text,
                 rsi_ret, pending, speakVars, loop_ret, exit_code, config,
                 outcomes, shown, said, facts_called, callVars, faultVars, fnVars, sttVars,
                 esc_from,
                 tmp_exists, cleanup_called>>

(***************************************************************************)
(* The conversation: main has reached line 694.                            *)
(***************************************************************************)
FnIdle ==
  /\ fn_has = FALSE
  /\ fn_asked = << >>
  /\ fn_invoked = << >>
  /\ fn_last = None
  /\ fn_exit = None
  /\ fn_facts = None
  /\ fn_speak = None

\* transcript before line 437 has assigned it.
NoTranscript == [status |-> "none", text |-> << >>]

\* How a call of transcribe_audio was left: not yet, by return of a value, or
\* by an exception.
Pending == <<"pending">>
Returned(v) == <<"return", v>>
Raised == <<"raise">>

\* No call of transcribe_audio is being followed.
SttIdle ==
  /\ stt_pc = "idle"
  /\ stt_attempt = 0
  /\ stt_elapsed = 0
  /\ stt_transcript = NoTranscript
  /\ stt_ended = << >>
  /\ stt_result = Pending

Init ==
  /\ pc = "rcm_enter"
  /\ turn = 0
  /\ consecutive_errors = 0
  /\ user_text = None
  /\ should_continue = FALSE
  /\ rsi_text = None
  /\ rsi_ret = None
  /\ pending = "none"
  /\ sp_ret = "none"
  /\ sp_msg = ""
  /\ sp_native = ""
  /\ sp_attempt = 0
  /\ sp_shown = ""
  /\ tmp_exists = FALSE
  /\ playing = 0
  /\ audio_exists = FALSE
  /\ cleanup_called = "none"
  /\ mixer_up = TRUE
  /\ swept = FALSE
  /\ loop_ret = "none"
  /\ exit_code = -1
  /\ esc_from = "none"
  /\ has_googletrans \in BOOLEAN
  /\ has_gtts \in BOOLEAN
  /\ target_lang \in {"gu", "en"}
  /\ outcomes = << >>
  /\ shown = {}
  /\ said = {}
  /\ facts_called = FALSE
  /\ exit_checked = FALSE
  /\ apologies = 0
  /\ ki_seen = FALSE
  /\ exc_seen = FALSE
  /\ exc_after_ki = FALSE
  /\ FnIdle
  /\ SttIdle

Next ==
  \/ EnterConversation \/ TurnStart \/ TurnBanner \/ CallInteraction
  \/ RecordAudio \/ RecFailPrint \/ RecFailSpeak \/ Transcribe
  \/ SttFailPrint \/ SttFailSpeak \/ SaidPrint \/ ExitCheck \/ AnswerFacts
  \/ Cleanup \/ HandleOutcome \/ TermPrint \/ TermSpeak \/ RetrySpeak
  \/ Sleep2 \/ ByePrint \/ ByeSpeak \/ Sleep1 \/ KiPrint \/ KiSpeak
  \/ ExCount \/ ExTermPrint \/ ExTermFallback \/ ExRetryPrint
  \/ ExRetrySpeak \/ ExSleep \/ SpeakDisplay \/ SpeakTextOnly
  \/ SpeakPlay \/ SpeakAttemptOk \/ SpeakAttemptFail \/ SpeakRemoveFail
  \/ SpeakGiveUp \/ PlaybackEnds
  \/ MainExceptKI \/ MainExceptEx \/ MainFinally
  \/ KeyboardInterrupt \/ DisplayError

Spec == Init /\ [][Next]_vars

(***************************************************************************)
(* Function-level session: translate_text and should_exit applied to       *)
(* inputs drawn from bounded sets, with the external translation service's *)
(* invocations counted.                                                    *)
(***************************************************************************)
FnTexts == {MsgTryAgain, MsgGoodbye}
FnLangs == {"en", "gu", "hi"}
FnArgs == FnTexts \X FnLangs

pEmpty == << >>
pStop == <<"s", "t", "o", "p">>
pStopUpper == <<"S", "T", "O", "P">>
pPleaseStop == <<"p", "l", "e", "a", "s", "e", " ", "s", "t", "o", "p", " ", "n", "o", "w">>
pWeekend == <<"w", "e", "e", "k", "e", "n", "d">>
pMyFriend == <<"m", "y", " ", "f", "r", "i", "e", "n", "d">>
pTheEnd == <<"t", "h", "e", " ", "e", "n", "d">>
pBandKaro == <<"b", "a", "n", "d", " ", "k", "a", "r", "o">>
pGoodbye == <<" ", "G", "o", "o", "d", "b", "y", "e", " ">>
pHello == <<"h", "e", "l", "l", "o">>
pMotto == <<"w", "h", "a", "t", " ", "i", "s", " ", "t", "h", "e", " ", "m", "o", "t", "t", "o">>
pSometimes == <<"s", "o", "m", "e", "t", "i", "m", "e", "s">>
pGoAhead == <<"g", "o", " ", "a", "h", "e", "a", "d">>
pICalled == <<"I", " ", "c", "a", "l", "l", "e", "d">>
pSchoolName == <<"s", "c", "h", "o", "o", "l", " ", "n", "a", "m", "e">>
pVicePrincipal ==
  <<"w", "h", "o", " ", "i", "s", " ", "t", "h", "e", " ", "V", "i", "c", "e",
    " ", "p", "r", "i", "n", "c", "i", "p", "a", "l">>
pPrincipal == <<"p", "r", "i", "n", "c", "i", "p", "a", "l", "?">>
ExitProbes ==
  {pEmpty, pStop, pStopUpper, pPleaseStop, pWeekend, pMyFriend, pTheEnd,
   pBandKaro, pGoodbye, pHello, pMotto}
FactsProbes ==
  {pEmpty, pHello, pMotto, pSometimes, pGoAhead, pICalled, pSchoolName,
   pVicePrincipal, pPrincipal}

RECURSIVE SumOver(_, _)
SumOver(f, S) ==
  IF S = {} THEN 0
  ELSE LET a == CHOOSE x \in S : TRUE IN f[a] + SumOver(f, S \ {a})

\* The state of the conversation's variables in a function-level session,
\* which does not run the conversation.
LoopRest ==
  /\ pc = "fn"
  /\ turn = 0
  /\ consecutive_errors = 0
  /\ user_text = None
  /\ should_continue = FALSE
  /\ rsi_text = None
  /\ rsi_ret = None
  /\ pending = "none"
  /\ sp_ret = "none"
  /\ sp_msg = ""
  /\ sp_native = ""
  /\ sp_attempt = 0
  /\ sp_shown = ""
  /\ tmp_exists = FALSE
  /\ playing = 0
  /\ audio_exists = FALSE
  /\ cleanup_called = "none"
  /\ mixer_up = TRUE
  /\ swept = FALSE
  /\ loop_ret = "none"
  /\ exit_code = -1
  /\ esc_from = "none"
  /\ outcomes = << >>
  /\ shown = {}
  /\ said = {}
  /\ facts_called = FALSE
  /\ exit_checked = FALSE
  /\ apologies = 0
  /\ ki_seen = FALSE
  /\ exc_seen = FALSE
  /\ exc_after_ki = FALSE

\* The program is not running the conversation in a function-level session.
LoopIdle ==
  /\ LoopRest
  /\ has_googletrans = FALSE
  /\ has_gtts = FALSE
  /\ target_lang = "en"

InitFn ==
  /\ LoopIdle
  /\ fn_has \in BOOLEAN
  /\ fn_asked = [a \in FnArgs |-> 0]
  /\ fn_invoked = [a \in FnArgs |-> 0]
  /\ fn_last = None
  /\ fn_exit = None
  /\ fn_facts = None
  /\ fn_speak = None
  /\ SttIdle

\* One call translate_text(text, target_lang); svc is what the external
\* service does if the call reaches it.
CallTranslate ==
  /\ SumOver(fn_asked, FnArgs) < MaxCalls
  /\ \E a \in FnArgs, svc \in SvcOutcomes :
       /\ fn_asked' = [fn_asked EXCEPT ![a] = @ + 1]
       /\ fn_invoked' =
            IF TranslateInvokes(a[2], fn_has)
            THEN [fn_invoked EXCEPT ![a] = @ + 1] ELSE fn_invoked
       /\ fn_last' =
            Some([text |-> a[1], lang |-> a[2],
                  result |-> translate_text(a[1], a[2], fn_has, svc),
                  invoked |-> TranslateInvokes(a[2], fn_has)])
  /\ UNCHANGED <<loopVars, sttVars, fn_has, fn_exit, fn_facts, fn_speak>>

\* should_exit applied to each probe.
ExitResults == [t \in ExitProbes |-> should_exit(t)]

\* One call should_exit(text).
CallShouldExit ==
  /\ \E t \in ExitProbes :
       fn_exit' = Some([text |-> t, result |-> ExitResults[t]])
  /\ fn_facts' = None
  /\ UNCHANGED <<loopVars, sttVars, fn_has, fn_asked, fn_invoked, fn_last, fn_speak>>

\* compare_to_facts applied to each probe; `responses` is the list the call
\* built.
FactsResults ==
  [t \in FactsProbes |->
     [text |-> t,
      responses |-> IF t = << >> THEN << >> ELSE Responses(Strip(Lower(t))),
      result |-> compare_to_facts(t)]]

\* One call compare_to_facts(text).
CallCompareToFacts ==
  /\ \E t \in FactsProbes : fn_facts' = Some(FactsResults[t])
  /\ fn_exit' = None
  /\ UNCHANGED <<loopVars, sttVars, fn_has, fn_asked, fn_invoked, fn_last, fn_speak>>

NextFn == CallTranslate \/ CallShouldExit \/ CallCompareToFacts

SpecFn == InitFn /\ [][NextFn]_vars

(***************************************************************************)
(* Function-level session of speak_in_language: the function is called     *)
(* with texts drawn from a bounded set, the empty text among them, under   *)
(* every configuration; the translation and synthesis services answer as   *)
(* they like.                                                              *)
(***************************************************************************)
SpeakTexts == {"", MsgTryAgain, AnsMotto}

InitSpeak ==
  /\ LoopRest
  /\ has_googletrans \in BOOLEAN
  /\ has_gtts \in BOOLEAN
  /\ target_lang \in {"gu", "en"}
  /\ FnIdle
  /\ SttIdle

\* One call speak_in_language(text, Config.TARGET_LANG).  Lines 319-320: an
\* empty text returns at once.
CallSpeak ==
  /\ pc = "fn"
  /\ \E text \in SpeakTexts :
       IF text = ""
       THEN /\ fn_speak' = Some(SpeakRecord("", "", 0, FALSE))
            /\ UNCHANGED <<pc, speakVars, envVars>>
       ELSE /\ SpeakCall("fn", text)
            /\ UNCHANGED fn_speak
  /\ UNCHANGED <<turn, consecutive_errors, user_text, should_continue, rsi_text,
                 rsi_ret, pending, loop_ret, exit_code, esc_from, config,
                 outcomes, shown, said, facts_called, callVars, faultVars, sttVars, fn_has,
                 fn_asked, fn_invoked, fn_last, fn_exit, fn_facts>>

NextSpeak ==
  \/ CallSpeak \/ SpeakDisplay \/ SpeakTextOnly \/ SpeakPlay
  \/ SpeakAttemptOk \/ SpeakAttemptFail \/ SpeakRemoveFail \/ SpeakGiveUp

SpecSpeak == InitSpeak /\ [][NextSpeak]_vars

(***************************************************************************)
(* transcribe_audio (SpecStt): one call, statement by statement.           *)
(***************************************************************************)
\* What the transcription service can answer to transcribe (line 437) and to
\* get_by_id (line 447): a status, and for a completed transcript its text,
\* which can be missing or blank.
SttTexts == {<< >>, <<" ", " ">>} \cup RawTranscripts

ServiceTranscripts ==
  {[status |-> st, text |-> << >>] : st \in {"queued", "processing", "error"}}
    \cup {[status |-> "completed", text |-> t] : t \in SttTexts}

\* Seconds one get_by_id request can take, on top of the sleep before it.
Latencies == {0, 9}

\* Line 440: the polling loop is over.
Polled(transcript) == transcript.status \in {"completed", "error"}

\* Line 442.
TimedOut(elapsed) == elapsed > TRANSCRIPTION_TIMEOUT

\* Lines 455 and 466: attempt < max_retries - 1 is false.
LastAttempt(attempt) == ~(attempt < MAX_RETRIES - 1)

\* Line 452: not transcript.text or not transcript.text.strip().
EmptyText(text) == text = << >> \/ Strip(text) = << >>

\* The print calls of transcribe_audio: lines 433, 445, 456, 461 inside the
\* try block, lines 467 and 470 in the except block.
SttPrintPcs == {"T_attempt", "T_processing", "T_empty", "T_done", "T_except"}

\* Lines 427-431: a missing file returns None; otherwise the first attempt
\* starts.
CallTranscribe ==
  /\ stt_pc = "idle"
  /\ \E exists \in BOOLEAN :
       IF exists
       THEN /\ stt_pc' = "T_attempt"
            /\ UNCHANGED stt_result
       ELSE /\ stt_pc' = "T_left"
            /\ stt_result' = Returned(None)
  /\ UNCHANGED <<stt_attempt, stt_elapsed, stt_transcript, stt_ended>>
  /\ UNCHANGED <<loopVars, fnVars>>

\* Lines 433-434.
SttAttemptPrint ==
  /\ stt_pc = "T_attempt"
  /\ stt_pc' = "T_submit"
  /\ UNCHANGED <<stt_attempt, stt_elapsed, stt_transcript, stt_ended,
                 stt_result>>
  /\ UNCHANGED <<loopVars, fnVars>>

\* Lines 436-439: transcribe raises, or returns a transcript; start_time is
\* taken.
SttSubmit ==
  /\ stt_pc = "T_submit"
  /\ \E raised \in BOOLEAN, t \in ServiceTranscripts :
       IF raised
       THEN /\ stt_pc' = "T_except"
            /\ stt_ended' = Append(stt_ended, "error")
            /\ UNCHANGED <<stt_transcript, stt_elapsed>>
       ELSE /\ stt_pc' = "T_poll"
            /\ stt_transcript' = t
            /\ stt_elapsed' = 0
            /\ UNCHANGED stt_ended
  /\ UNCHANGED <<stt_attempt, stt_result>>
  /\ UNCHANGED <<loopVars, fnVars>>

\* Lines 440-443: the loop test, then the timeout test on the time elapsed.
SttPollTest ==
  /\ stt_pc = "T_poll"
  /\ IF Polled(stt_transcript)
     THEN /\ stt_pc' = "T_status"
          /\ UNCHANGED stt_ended
     ELSE IF TimedOut(stt_elapsed)
          THEN /\ stt_pc' = "T_except"
               /\ stt_ended' = Append(stt_ended, "timeout")
          ELSE /\ stt_pc' = "T_processing"
               /\ UNCHANGED stt_ended
  /\ UNCHANGED <<stt_attempt, stt_elapsed, stt_transcript, stt_result>>
  /\ UNCHANGED <<loopVars, fnVars>>

\* Line 445.
SttProcessingPrint ==
  /\ stt_pc = "T_processing"
  /\ stt_pc' = "T_wait"
  /\ UNCHANGED <<stt_attempt, stt_elapsed, stt_transcript, stt_ended,
                 stt_result>>
  /\ UNCHANGED <<loopVars, fnVars>>

\* Lines 446-447: sleep RETRY_DELAY seconds, then ask for the transcript
\* again; the request raises or answers.
SttWait ==
  /\ stt_pc = "T_wait"
  /\ \E d \in Latencies, raised \in BOOLEAN, t \in ServiceTranscripts :
       /\ stt_elapsed' = stt_elapsed + RETRY_DELAY + d
       /\ IF raised
          THEN /\ stt_pc' = "T_except"
               /\ stt_ended' = Append(stt_ended, "error")
               /\ UNCHANGED stt_transcript
          ELSE /\ stt_pc' = "T_poll"
               /\ stt_transcript' = t
               /\ UNCHANGED stt_ended
  /\ UNCHANGED <<stt_attempt, stt_result>>
  /\ UNCHANGED <<loopVars, fnVars>>

\* Lines 449-458: an error status raises; an empty transcript is retried, or
\* on the last attempt returns None; anything else is a success.
SttStatus ==
  /\ stt_pc = "T_status"
  /\ IF stt_transcript.status = "error"
     THEN /\ stt_pc' = "T_except"
          /\ stt_ended' = Append(stt_ended, "error")
          /\ UNCHANGED stt_result
     ELSE IF EmptyText(stt_transcript.text)
          THEN /\ stt_ended' = Append(stt_ended, "empty")
               /\ IF LastAttempt(stt_attempt)
                  THEN /\ stt_pc' = "T_left"
                       /\ stt_result' = Returned(None)
                  ELSE /\ stt_pc' = "T_empty"
                       /\ UNCHANGED stt_result
          ELSE /\ stt_pc' = "T_done"
               /\ UNCHANGED <<stt_ended, stt_result>>
  /\ UNCHANGED <<stt_attempt, stt_elapsed, stt_transcript>>
  /\ UNCHANGED <<loopVars, fnVars>>

\* Lines 456-458: print, sleep, continue with the next attempt.
SttEmptyRetry ==
  /\ stt_pc = "T_empty"
  /\ stt_attempt' = stt_attempt + 1
  /\ stt_pc' = "T_attempt"
  /\ UNCHANGED <<stt_elapsed, stt_transcript, stt_ended, stt_result>>
  /\ UNCHANGED <<loopVars, fnVars>>

\* Lines 460-462: return transcript.text.lower().strip().
SttDone ==
  /\ stt_pc = "T_done"
  /\ stt_ended' = Append(stt_ended, "ok")
  /\ stt_result' = Returned(Some(Strip(Lower(stt_transcript.text))))
  /\ stt_pc' = "T_left"
  /\ UNCHANGED <<stt_attempt, stt_elapsed, stt_transcript>>
  /\ UNCHANGED <<loopVars, fnVars>>

\* Lines 464-471, the except block: print and sleep before the next attempt,
\* or print and return None after the last.
SttExcept ==
  /\ stt_pc = "T_except"
  /\ IF LastAttempt(stt_attempt)
     THEN /\ stt_pc' = "T_left"
          /\ stt_result' = Returned(None)
          /\ UNCHANGED stt_attempt
     ELSE /\ stt_pc' = "T_attempt"
          /\ stt_attempt' = stt_attempt + 1
          /\ UNCHANGED stt_result
  /\ UNCHANGED <<stt_elapsed, stt_transcript, stt_ended>>
  /\ UNCHANGED <<loopVars, fnVars>>

\* A print call raises.  Inside the try block the exception is taken by
\* except Exception (line 464) and the attempt has ended in an error, unless
\* it had ended already with an empty transcript (line 456); the prints of
\* the except block (lines 467, 470) are inside no try block and their
\* exception leaves transcribe_audio.
SttDisplayError ==
  /\ stt_pc \in SttPrintPcs
  /\ IF stt_pc = "T_except"
     THEN /\ stt_pc' = "T_left"
          /\ stt_result' = Raised
          /\ UNCHANGED stt_ended
     ELSE /\ stt_pc' = "T_except"
          /\ stt_ended' = IF stt_pc = "T_empty" THEN stt_ended
                          ELSE Append(stt_ended, "error")
          /\ UNCHANGED stt_result
  /\ UNCHANGED <<stt_attempt, stt_elapsed, stt_transcript>>
  /\ UNCHANGED <<loopVars, fnVars>>

InitStt ==
  /\ LoopIdle
  /\ FnIdle
  /\ SttIdle

NextStt ==
  \/ CallTranscribe \/ SttAttemptPrint \/ SttSubmit \/ SttPollTest
  \/ SttProcessingPrint \/ SttWait \/ SttStatus \/ SttEmptyRetry \/ SttDone
  \/ SttExcept \/ SttDisplayError

SpecStt == InitStt /\ [][NextStt]_vars

(***************************************************************************)
(* Properties.                                                             *)
(***************************************************************************)
\* The number of "Failed" outcomes at the end of a sequence of outcomes.
RECURSIVE TrailingFailed(_)
TrailingFailed(os) ==
  IF os # << >> /\ os[Len(os)] = "Failed"
  THEN 1 + TrailingFailed(SubSeq(os, 1, Len(os) - 1))
  ELSE 0

LastOutcome == IF outcomes = << >> THEN "none" ELSE outcomes[Len(outcomes)]

\* No KeyboardInterrupt has arrived and no print has raised: the run is a
\* sequence of Failed, Continue and Exit turns.
NoFault == ~ki_seen /\ ~exc_seen

\* run_conversation_mode has ended, by a return or by an exception.
LoopEnded == loop_ret # "none"

\* C1: in a run made of turn outcomes only (no interrupt, no exception), the
\* consecutive-error count is the number of Failed turns in a row once a
\* turn's outcome has been counted; a Continue turn resets it; the loop
\* returns 1 on the turn that is the 3rd Failed turn in a row, starting no
\* further turn, and it ends in no other way than by that return or by
\* returning 0 on an exit request: Failed, Failed, Continue, Failed leaves it
\* running.
C1_ThirdFailureTerminates ==
  NoFault =>
    /\ Site # "L_handle" => consecutive_errors = TrailingFailed(outcomes)
    /\ (Site # "L_handle" /\ TrailingFailed(outcomes) >= MAX_CONSECUTIVE_ERRORS)
         => \/ Site \in {"L_term_print", "L_term_speak"}
            \/ loop_ret = "1"
    /\ LoopEnded =>
         \/ loop_ret = "1" /\ TrailingFailed(outcomes) = MAX_CONSECUTIVE_ERRORS
                           /\ exit_code = 1
         \/ loop_ret = "0" /\ LastOutcome = "Exit" /\ exit_code = 0

\* Failed, Failed, Continue, Failed: the count is 1 and the loop goes on.
C1_Witness ==
  /\ NoFault
  /\ outcomes = <<"Failed", "Failed", "Continue", "Failed">>
  /\ pc = "L_sleep2"
  /\ consecutive_errors = 1
  /\ ~LoopEnded

\* The transcript the loop got from the current turn asks to exit.
ExitRequested == user_text # None /\ should_exit(user_text[1])

\* C2: a turn whose transcript triggers the exit detector returns without
\* compare_to_facts having been called, whatever the turn number and the
\* consecutive-error count and also when the transcript holds fact keywords;
\* and, no interrupt or exception intervening, run_conversation_mode then
\* speaks the goodbye message and returns 0.
C2_ExitSkipsFacts ==
  /\ (pc = "R_finally" /\ pending = "ret" /\ rsi_ret[1][1] # None
        /\ should_exit(rsi_ret[1][1][1]))
       => ~facts_called /\ rsi_ret[1][2] = FALSE
  /\ ExitRequested => ~facts_called /\ ~should_continue
  /\ (ExitRequested /\ NoFault) =>
       \/ Site \in {"L_handle", "L_bye_print", "L_bye_speak"}
       \/ /\ loop_ret = "0"
          /\ exit_code = 0
          /\ MsgGoodbye \in said

\* An exit request with a fact keyword in it ("bye principal"), on the third
\* turn with two failures counted before it.
C2_Witness ==
  /\ NoFault
  /\ outcomes = <<"Failed", "Failed", "Exit">>
  /\ user_text = Some(Strip(Lower(tByePrincipal)))
  /\ AnyWordIn(PrincipalWords, user_text[1])
  /\ turn = 3
  /\ pc = "done"
  /\ exit_code = 0
  /\ MsgGoodbye \in said

C4_InterruptAcknowledged ==
  (ki_seen /\ ~exc_seen /\ turn >= 1 /\ pc = "done")
    => MsgInterrupted \in said

\* C5: no exception raised in a turn or in the loop's handling of a turn's
\* outcome leaves run_conversation_mode: an Exception leaves it at most from
\* the statements before the try block or from the interrupt handler.
C5_NoErrorEscapes ==
  loop_ret = "exc" => esc_from \in {"rcm_enter", "L_banner", "KI_print", "KI_speak"}

\* C6: once a turn has started, the process ends with a non-zero status only
\* with the consecutive-error count at the threshold and the terminal notice
\* displayed in that turn.
C6_NonZeroOnlyAtThreshold ==
  (turn >= 1 /\ exit_code # -1 /\ exit_code # 0)
    => /\ consecutive_errors >= MAX_CONSECUTIVE_ERRORS
       /\ MsgTooMany \in shown

\* C7: the consecutive-error count stays within 0..MAX_CONSECUTIVE_ERRORS and
\* no turn is started or running with the count at the threshold.
C7_CountBounded ==
  /\ consecutive_errors \in 0..MAX_CONSECUTIVE_ERRORS
  /\ Site \in ({"L_banner", "L_call"} \cup RsiPcs)
       => consecutive_errors < MAX_CONSECUTIVE_ERRORS

\* C8: for a non-English target language, the external translation service
\* is invoked at most once per (text, language), however often
\* translate_text is called with them.
C8_ServiceInvokedAtMostOnce ==
  \A a \in FnArgs :
    (a[2] # "en" /\ a \in DOMAIN fn_invoked) => fn_invoked[a] <= 1

\* C9: translate_text(text, "en") returns text and does not invoke the
\* external service, whether or not the provider is available.
C9_EnglishIdentity ==
  (fn_last # None /\ fn_last[1].lang = "en")
    => /\ fn_last[1].result = Some(fn_last[1].text)
       /\ ~fn_last[1].invoked

\* Characters that make up words (the \w of a boundary-anchored pattern).
IsWordChar(c) ==
  \/ \E k \in 1..Len(LowerCase) : c = LowerCase[k] \/ c = UpperCase[k]
  \/ c \in {"0", "1", "2", "3", "4", "5", "6", "7", "8", "9", "_"}

\* kw occurs in s with no word character next to it on either side.
WholeOccurs(kw, s) ==
  \E i \in Occurrences(kw, s) :
    /\ i = 1 \/ ~IsWordChar(s[i - 1])
    /\ i + Len(kw) - 1 = Len(s) \/ ~IsWordChar(s[i + Len(kw)])

HasWholeExitPhrase(t) ==
  \E k \in 1..Len(EXIT_KEYWORDS) : WholeOccurs(EXIT_KEYWORDS[k], Lower(t))

HasExitPhraseInside(t) ==
  \E k \in 1..Len(EXIT_KEYWORDS) : Contains(EXIT_KEYWORDS[k], Lower(t))

\* C10: should_exit is true of a text holding an exit phrase as a whole word
\* or phrase, in any case, and false of the empty text and of a text in
\* which exit phrases occur only inside other words.
C10_WholeWordExit ==
  fn_exit # None =>
    LET t == fn_exit[1].text
        r == fn_exit[1].result
    IN /\ t = << >> => ~r
       /\ HasWholeExitPhrase(t) => r
       /\ (HasExitPhraseInside(t) /\ ~HasWholeExitPhrase(t)) => ~r

\* Some term of a category's list occurs in t as a whole word.
AnyWholeWordIn(words, t) == \E k \in 1..Len(words) : WholeOccurs(words[k], t)

\* The answers of the categories of which a trigger term occurs in t as a
\* whole word, in the order of the table.
WholeWordResponses(t) ==
     (IF AnyWholeWordIn(PrincipalWords, t) THEN <<AnsPrincipal>> ELSE << >>)
  \o (IF AnyWholeWordIn(SchoolWords, t) /\ AnyWholeWordIn(NameWords, t)
      THEN <<AnsSchoolName>> ELSE << >>)
  \o (IF AnyWholeWordIn(LocationWords, t) THEN <<AnsLocation>> ELSE << >>)
  \o (IF AnyWholeWordIn(MottoWords, t) THEN <<AnsMotto>> ELSE << >>)
  \o (IF AnyWholeWordIn(EstablishedWords, t) THEN <<AnsEstablished>> ELSE << >>)
  \o (IF AnyWholeWordIn(GradesWords, t) THEN <<AnsGrades>> ELSE << >>)
  \o (IF AnyWholeWordIn(TimingsWords, t) THEN <<AnsTimings>> ELSE << >>)
  \o (IF AnyWholeWordIn(ContactWords, t) THEN <<AnsContact>> ELSE << >>)

\* C11: compare_to_facts appends a category's answer only when one of the
\* category's trigger terms occurs in the text as a whole word, and a text
\* matching exactly one category that way gets exactly that category's
\* answer.
C11_WholeWordFacts ==
  (fn_facts # None /\ fn_facts[1].text # << >>) =>
    LET t == Strip(Lower(fn_facts[1].text))
        whole == WholeWordResponses(t)
        rs == fn_facts[1].responses
    IN /\ \A i \in 1..Len(rs) : \E j \in 1..Len(whole) : rs[i] = whole[j]
       /\ Len(whole) = 1 => fn_facts[1].result = whole[1]

vicePrincipal ==
  <<"v", "i", "c", "e", " ", "p", "r", "i", "n", "c", "i", "p", "a", "l">>

\* C12: for a text containing "vice principal" compare_to_facts does not
\* give the base principal answer, alone or together with another answer.
C12_SubVariantOnly ==
  (fn_facts # None /\ WholeOccurs(vicePrincipal, Lower(fn_facts[1].text))) =>
    LET rs == fn_facts[1].responses
    IN /\ fn_facts[1].result # AnsPrincipal
       /\ \A i \in 1..Len(rs) : rs[i] # AnsPrincipal

\* run_single_interaction is executing (its try block or its finally block).
InInteraction == Site \in RsiPcs \cup {"R_finally"}

\* C13: whatever the translation and synthesis services do, a turn whose
\* capture and transcription succeeded returns its transcript (Continue or
\* ExitRequested), and after such a turn the consecutive-error count is 0.
C13_ServiceFailuresAbsorbed ==
  NoFault =>
    /\ Site \in {"R_said", "R_exit", "R_facts", "R_speak"} => rsi_text # None
    /\ (pc = "R_finally" /\ rsi_text # None)
         => /\ pending = "ret"
            /\ rsi_ret # None
            /\ rsi_ret[1][1] = rsi_text
    /\ (LastOutcome \in {"Continue", "Exit"} /\ Site # "L_handle")
         => consecutive_errors = 0

\* A turn after a failed one: no translation provider, and every synthesis
\* attempt for the answer failed after saving its file; the turn counts as
\* Continue and the count is back to 0.
C13_Witness ==
  /\ NoFault
  /\ pc = "L_sleep1"
  /\ outcomes = <<"Failed", "Continue">>
  /\ consecutive_errors = 0
  /\ target_lang = "gu"
  /\ ~has_googletrans
  /\ has_gtts
  /\ tmp_exists

\* C14: once speak_in_language has returned, the temporary file it
\* synthesized into does not exist.
C14_TempFileRemoved == pc \notin SpeakPcs => ~tmp_exists

\* C15: when run_single_interaction has been left, by a return, an exception
\* or an interrupt, cleanup_files has been called for the turn's recording,
\* and the recording is gone unless an interrupt cut the cleanup short.
C15_CleanupOnEveryPath ==
  /\ InInteraction => cleanup_called = "due"
  /\ cleanup_called = "due" => InInteraction
  /\ (audio_exists /\ ~ki_seen) => InInteraction

\* An interrupt arrived while the answer was being spoken: the handler runs
\* with the cleanup done and the recording removed.
C15_Witness ==
  /\ ki_seen
  /\ ~exc_seen
  /\ pc = "KI_print"
  /\ facts_called
  /\ cleanup_called = "called"
  /\ ~audio_exists

\* C16: a call of speak_in_language makes at most tts_retries attempts, ends
\* with the first attempt that succeeds, and returns normally, without
\* audio, when every attempt has failed.
C16_BoundedAttempts ==
  /\ sp_attempt \in 0..tts_retries
  /\ pc = "S_play" => sp_attempt < tts_retries
  /\ pc \in {"fn"} \cup SpeakPcs
  /\ fn_speak # None =>
       LET r == fn_speak[1]
       IN /\ r.failed \in 0..tts_retries
          /\ r.played => r.failed < tts_retries
          /\ (r.text # "" /\ has_gtts /\ ~r.played) => r.failed = tts_retries
          /\ ~has_gtts => (r.failed = 0 /\ ~r.played)

\* A call returned after tts_retries failed attempts, nothing played.
C16_Witness ==
  /\ pc = "fn"
  /\ has_gtts
  /\ fn_speak # None
  /\ fn_speak[1].text = MsgTryAgain
  /\ fn_speak[1].failed = tts_retries
  /\ ~fn_speak[1].played

\* The line speak_in_language is to display for text_en, given text_native.
ExpectedLine(text_en, text_native, lang) ==
  IF text_native # text_en THEN text_native
  ELSE IF lang = "en" THEN text_en
  ELSE text_en \o " [Translation unavailable]"

\* C17: for a non-empty text, the localized text, or the English text marked
\* as untranslated, has been displayed when the first synthesis attempt
\* begins, and so also when every attempt fails or gTTS is absent; for the
\* empty text nothing is displayed or synthesized.
C17_DisplayBeforeAudio ==
  /\ pc \in {"S_synth", "S_play"}
       => /\ sp_shown # ""
          /\ sp_shown = ExpectedLine(sp_msg, sp_native, target_lang)
  /\ fn_speak # None =>
       LET r == fn_speak[1]
       IN /\ r.text # "" =>
               \/ r.shown = r.text /\ target_lang = "en"
               \/ r.shown = r.text \o " [Translation unavailable]"
                    /\ target_lang # "en"
               \/ r.shown = ServiceText(r.text, target_lang, "ok")
                    /\ target_lang # "en" /\ has_googletrans
          /\ r.text = "" => (r.shown = "" /\ r.failed = 0 /\ ~r.played)

\* A call whose translation was unavailable and whose every audio attempt
\* failed has displayed the English text, marked as untranslated.
C17_Witness ==
  /\ pc = "fn"
  /\ has_gtts
  /\ target_lang = "gu"
  /\ fn_speak # None
  /\ fn_speak[1].text = MsgTryAgain
  /\ fn_speak[1].shown = MsgTryAgain \o " [Translation unavailable]"
  /\ fn_speak[1].failed = tts_retries
  /\ ~fn_speak[1].played

\* C18: at most one playback is in progress at any time, and while the
\* conversation goes on a playback is in progress only inside the call that
\* waits for it: none is when a turn starts or captures.
C18_Sequential ==
  /\ playing \in {0, 1}
  /\ (playing = 1 /\ ~ki_seen) => pc = "S_play"
  /\ pc \in {"L_top", "L_banner", "L_call", "R_record", "R_transcribe"}
       => playing = 0

\* The second turn's apology is playing, after a first turn whose apology and
\* retry prompt were spoken.
C18_Witness ==
  /\ NoFault
  /\ turn = 2
  /\ outcomes = <<"Failed">>
  /\ pc = "S_play"
  /\ sp_ret = "R_rec_speak"
  /\ playing = 1

\* C19: when main has ended after entering the conversation, the mixer has
\* been shut down and the recordings swept, on every way out.
C19_TeardownOnEveryExit ==
  pc = "done" =>
    /\ ~mixer_up
    /\ swept
    /\ ~audio_exists
    /\ playing = 0
    /\ exit_code \in {0, 1}

\* main ended through its except Exception block, after an exception left
\* run_conversation_mode.
C19_Witness ==
  /\ pc = "done"
  /\ loop_ret = "exc"
  /\ exit_code = 1
  /\ ~mixer_up
  /\ swept

\* The number of failed turns (a Failed outcome or an exception leaving
\* run_single_interaction) at the end of a sequence of outcomes.
RECURSIVE TrailingFailedTurns(_)
TrailingFailedTurns(os) ==
  IF os # << >> /\ os[Len(os)] \in {"Failed", "Exception"}
  THEN 1 + TrailingFailedTurns(SubSeq(os, 1, Len(os) - 1))
  ELSE 0

\* C20: at the start of every iteration of the loop, the consecutive-error
\* count is the number of failed turns in a row just before it.
C20_CountIsFailedRun ==
  pc = "L_top" => consecutive_errors = TrailingFailedTurns(outcomes)

\* C21: without an interrupt, every failed turn, a Failed outcome or an
\* exception leaving run_single_interaction, is counted on
\* consecutive_errors; once 3 turns in a row have failed, in any mix, no
\* further turn is started and the run ends with exit status 1; and the
\* notice of an exception turn goes through speak_english_fallback:
\* speak_in_language announces it only on a turn with a Failed outcome.
C21_ExceptionsCountAsFailed ==
  ~ki_seen =>
    /\ Site \notin {"L_handle", "EX_count"}
         => consecutive_errors >= TrailingFailedTurns(outcomes)
    /\ (TrailingFailedTurns(outcomes) >= MAX_CONSECUTIVE_ERRORS
          /\ Site \notin {"L_handle", "EX_count"})
         => /\ Site \in {"L_term_print", "L_term_speak", "EX_term_print",
                         "EX_term_fallback", "M_exceptEx", "M_finally", "done"}
            /\ exit_code \in {-1, 1}
            /\ pc = "done" => exit_code = 1
    /\ Site \in {"L_term_print", "L_term_speak"} => LastOutcome = "Failed"
    /\ (pc \in SpeakPcs /\ sp_msg = MsgTooMany) => sp_ret = "L_term_speak"
    /\ (LastOutcome = "Exception" /\ loop_ret = "1")
         => /\ consecutive_errors >= MAX_CONSECUTIVE_ERRORS
            /\ MsgTooMany \in said
            /\ exit_code = 1

\* A Failed turn and two exception turns in a row: the loop has returned 1
\* from the except block after the fallback announcement.
C21_Witness ==
  /\ ~ki_seen
  /\ outcomes = <<"Failed", "Exception", "Exception">>
  /\ consecutive_errors = MAX_CONSECUTIVE_ERRORS
  /\ loop_ret = "1"
  /\ MsgTooMany \in said
  /\ pc = "done"
  /\ exit_code = 1

\* The turn's call of run_single_interaction is returning the Failed outcome.
ReturningFailed ==
  pc = "R_finally" /\ pending = "ret" /\ rsi_ret = Some(<<None, FALSE>>)

\* C22: a turn that fails at capture or at transcription calls
\* speak_in_language with exactly one apology before it returns Failed, and
\* calls neither should_exit nor compare_to_facts; a run of capture or
\* transcription failures only is over after 3 turns, so after at most 3
\* apologies.
C22_OneApologyPerFailedTurn ==
  /\ apologies \in {0, 1}
  /\ ReturningFailed
       => /\ apologies = 1
          /\ \/ MsgRecFail \in said /\ MsgSttFail \notin said
             \/ MsgSttFail \in said /\ MsgRecFail \notin said
          /\ ~exit_checked
          /\ ~facts_called
  /\ (user_text = None /\ Site \in {"L_handle", "L_term_print", "L_term_speak",
                                    "L_retry_speak", "L_sleep2"})
       => (apologies = 1 /\ ~exit_checked /\ ~facts_called)
  /\ (exit_checked \/ facts_called) => apologies = 0
  /\ (NoFault /\ \A i \in 1..Len(outcomes) : outcomes[i] = "Failed")
       => turn <= MAX_CONSECUTIVE_ERRORS

\* Three capture failures in a row: the third turn has spoken its one
\* apology and the run has ended with status 1.
C22_Witness ==
  /\ NoFault
  /\ outcomes = <<"Failed", "Failed", "Failed">>
  /\ turn = 3
  /\ apologies = 1
  /\ MsgRecFail \in said
  /\ shown = {MsgRecFail, MsgTooMany}
  /\ ~exit_checked
  /\ ~facts_called
  /\ pc = "done"
  /\ exit_code = 1

\* C24: the k-th call of run_single_interaction gets turn number k: the
\* numbers start at 1, go up by 1 with every iteration whatever the outcome
\* of the turn before, and none is used twice.
C24_TurnNumbers ==
  /\ InInteraction => turn = Len(outcomes) + 1
  /\ turn \in {Len(outcomes), Len(outcomes) + 1}
  /\ Site \in {"L_banner", "L_call"} => turn = Len(outcomes) + 1
  /\ pc = "L_top" => turn = Len(outcomes)

\* The fourth turn, after a Failed turn, an exception turn and a Continue
\* turn, is called with turn number 4.
C24_Witness ==
  /\ pc = "R_record"
  /\ outcomes = <<"Failed", "Exception", "Continue">>
  /\ turn = 4

\* transcribe_audio is not left by an exception.
SttNeverRaises == stt_result # Raised

\* At most max_retries attempts are made.
SttAttemptsBounded ==
  /\ stt_attempt < MAX_RETRIES
  /\ Len(stt_ended) <= MAX_RETRIES
  /\ Len(stt_ended) \in {stt_attempt, stt_attempt + 1}

\* No status request is made once TRANSCRIPTION_TIMEOUT seconds have elapsed.
SttPollingCut ==
  stt_pc \in {"T_processing", "T_wait"} => stt_elapsed <= TRANSCRIPTION_TIMEOUT

\* A returned value is None or a non-empty, lower-cased, trimmed text.
SttResultShape ==
  (stt_result # Pending /\ stt_result # Raised)
    => \/ stt_result[2] = None
       \/ LET text == stt_result[2][1]
          IN  /\ text # << >>
              /\ text = Lower(text)
              /\ text = Strip(text)
              /\ stt_result[2] \in Transcriptions

\* None is returned exactly when every attempt ended in an error, a timeout
\* or an empty transcript.
SttNoneIffAllFailed ==
  (stt_result # Pending /\ stt_result # Raised)
    => (stt_result[2] = None
          <=> \A i \in 1..Len(stt_ended) :
                stt_ended[i] \in {"error", "timeout", "empty"})

\* C23: transcribe_audio always returns, None or a lower-cased trimmed
\* non-empty text, and never raises: it makes at most 3 attempts, stops
\* polling an attempt once 60 seconds have elapsed, and returns None exactly
\* when every attempt ended in an error, a timeout or an empty transcript.
C23_TranscribeAlwaysReturns ==
  /\ SttNeverRaises
  /\ SttAttemptsBounded
  /\ SttPollingCut
  /\ SttResultShape
  /\ SttNoneIffAllFailed

====
